---- MODULE Spec2Model ----
(***************************************************************************)
(* A model of VanessaRuntime (vanessaRuntime.ts of vanessa_debugger): the  *)
(* breakpoint registry, the execution position, the deferred event queue   *)
(* and the watcher of the debuggee's status file.                          *)
(*                                                                         *)
(* The text of a feature file is a sequence of one-character strings; a    *)
(* JSON text is the sequence of its lexemes.  `undefined` is the string    *)
(* Undefined where a string is expected and the empty sequence where an    *)
(* array or an object is.                                                  *)
(***************************************************************************)
EXTENDS Integers, Sequences, FiniteSets, TLC

\* ------------------------------------------------------------------ bounds
\* setBreakPoint / clearBreakPoint are called with a line in 0..MaxLine
MaxLine == 2
\* setBreakPoint is called while _breakpointId < MaxBreakpointId
MaxBreakpointId == 3
\* operations that emit an event are called while fewer than MaxQueued
\* setImmediate callbacks wait in the event loop
MaxQueued == 2
\* the watcher's listener runs while fewer than MaxReads calls of fs.readFile
\* are in flight
MaxReads == 1
\* a status record asks for a document switch while fewer than MaxSwitches
\* switches are in flight
MaxSwitches == 1

\* ------------------------------------------------------------- the files
Undefined == "undefined"
AFeature == "a.feature"
OtherFeature == "other.feature"
Files == {AFeature, OtherFeature}

\* The feature files on disk.  a.feature has five lines:
\*   "x" / "" / " +x" / "x+" / " x "      and other.feature is empty.
FileContent(f) ==
  IF f = AFeature
    THEN <<"x", "\n", "\n", " ", "+", "x", "\n", "x", "+", "\n", " ", "x", " ">>
    ELSE <<>>

\* ------------------------------------------------------- string functions
\* String.prototype.split('\n')
RECURSIVE split(_)
split(s) ==
  IF s = <<>> THEN << <<>> >>
  ELSE LET rest == split(Tail(s)) IN
       IF Head(s) = "\n" THEN << <<>> >> \o rest
       ELSE << <<Head(s)>> \o Head(rest) >> \o Tail(rest)

IsWhiteSpace(c) == c \in {" ", "\t", "\r", "\n"}

RECURSIVE trimStart(_)
trimStart(s) ==
  IF s # <<>> /\ IsWhiteSpace(Head(s)) THEN trimStart(Tail(s)) ELSE s

RECURSIVE trimEnd(_)
trimEnd(s) ==
  IF s # <<>> /\ IsWhiteSpace(s[Len(s)])
    THEN trimEnd(SubSeq(s, 1, Len(s) - 1)) ELSE s

\* String.prototype.trim()
trim(s) == trimEnd(trimStart(s))

\* String.prototype.indexOf(c): zero-based, -1 when absent
indexOf(s, c) ==
  IF \E i \in 1..Len(s) : s[i] = c
    THEN (CHOOSE i \in 1..Len(s) : s[i] = c /\ \A j \in 1..(i - 1) : s[j] # c) - 1
    ELSE -1

\* ------------------------------------------------------------------- JSON
\* A JSON text is the sequence of its lexemes: the six punctuators, string
\* literals in their quotes, numbers in decimal, true and false.
Punctuators == {"[", "]", "{", "}", ",", ":"}

Punct(p) == p

Str(s) == "\"" \o s \o "\""

Num(n) == ToString(n)

Bool(b) == IF b THEN "true" ELSE "false"

\* the elements of a JSON array, separated by commas
RECURSIVE JoinComma(_)
JoinComma(parts) ==
  IF parts = <<>> THEN <<>>
  ELSE IF Len(parts) = 1 THEN parts[1]
  ELSE parts[1] \o <<Punct(",")>> \o JoinComma(Tail(parts))

StringifyArray(parts) == <<Punct("[")>> \o JoinComma(parts) \o <<Punct("]")>>

Member(key, value) == <<Str(key), Punct(":")>> \o value

StringifyObject(members) == <<Punct("{")>> \o JoinComma(members) \o <<Punct("}")>>

\* a VanessaBreakpoint, its properties in the order the object literal of
\* setBreakPoint creates them
StringifyBreakpoint(bp) ==
  StringifyObject(<< Member("verified", <<Bool(bp.verified)>>),
                     Member("line", <<Num(bp.line)>>),
                     Member("id", <<Num(bp.id)>>) >>)

\* JSON.stringify(breakPointsInfo)
StringifyBreakPointsInfo(info) ==
  StringifyArray(
    [i \in 1..Len(info) |->
      StringifyObject(<<
        Member("file", <<Str(info[i].file)>>),
        Member("breakpoints",
               StringifyArray([j \in 1..Len(info[i].breakpoints) |->
                                StringifyBreakpoint(info[i].breakpoints[j])])) >>)])

\* JSON.stringify of what the debuggee reports
StringifyDebugInfo(debugInfo) ==
  StringifyObject(<< Member("file", <<Str(debugInfo.file)>>),
                     Member("line", <<Num(debugInfo.line)>>),
                     Member("status", <<Str(debugInfo.status)>>) >>)

\* the strings and the numbers the JSON texts here are made of
JSONStrings ==
  Files \cup {"file", "breakpoints", "verified", "line", "id", "status", "run"}

JSONNumbers == 0..20

StringLexeme == [str \in JSONStrings |-> Str(str)]

NumberLexeme == [n \in JSONNumbers |-> Num(n)]

IsString(tok) == \E str \in JSONStrings : StringLexeme[str] = tok

IsNumber(tok) == \E n \in JSONNumbers : NumberLexeme[n] = tok

\* the value of a string literal, of a number
StringValue(tok) == CHOOSE str \in JSONStrings : StringLexeme[str] = tok

NumberValue(tok) == CHOOSE n \in JSONNumbers : NumberLexeme[n] = tok

IsScalar(tok) == IsString(tok) \/ IsNumber(tok) \/ tok \in {"true", "false"}

ParseFailed == [ok |-> FALSE, members |-> <<>>]

\* the members of an object, from the token after "{" or ","
RECURSIVE parseMembers(_, _)
parseMembers(toks, members) ==
  IF /\ Len(toks) >= 4
     /\ IsString(toks[1])
     /\ toks[2] = Punct(":")
     /\ IsScalar(toks[3])
    THEN LET more == Append(members, [key |-> StringValue(toks[1]),
                                      value |-> toks[3]]) IN
         IF toks[4] = Punct("}")
           THEN IF Len(toks) = 4 THEN [ok |-> TRUE, members |-> more] ELSE ParseFailed
           ELSE IF toks[4] = Punct(",")
                  THEN parseMembers(SubSeq(toks, 5, Len(toks)), more)
                  ELSE ParseFailed
    ELSE ParseFailed

\* JSON.parse of an object of scalars; ok is FALSE where it throws SyntaxError
JSONParse(toks) ==
  IF toks # <<>> /\ toks[1] = Punct("{")
    THEN IF Len(toks) = 2 /\ toks[2] = Punct("}")
           THEN [ok |-> TRUE, members |-> <<>>]
           ELSE parseMembers(Tail(toks), <<>>)
    ELSE ParseFailed

\* obj[key]: the last member of that name, as its lexeme
property(obj, key) ==
  obj.members[CHOOSE i \in 1..Len(obj.members) :
                /\ obj.members[i].key = key
                /\ \A j \in (i + 1)..Len(obj.members) : obj.members[j].key # key].value

\* ------------------------------------------------------------ the debuggee
\* what the debuggee reports: a.feature line 2, other.feature line 7
StatusRecords ==
  { [file |-> AFeature, line |-> 2, status |-> "run"],
    [file |-> OtherFeature, line |-> 7, status |-> "run"] }

\* a write of the status file that was cut short
PartialStatus ==
  SubSeq(StringifyDebugInfo([file |-> AFeature, line |-> 2, status |-> "run"]), 1, 6)

\* the contents the status file can have: empty, a record, a partial record
StatusContents ==
  {<<>>, PartialStatus} \cup {StringifyDebugInfo(r) : r \in StatusRecords}

\* --------------------------------------------------- the runtime's state
VARIABLES
  sourceFile,     \* _sourceFile
  sourceLines,    \* _sourceLines
  currentLine,    \* _currentLine
  breakPoints,    \* _breakPoints: the Map's entries in insertion order
  breakpointId,   \* _breakpointId
  breaksFile,     \* the content of the breakpoints file
  immediate,      \* the callbacks setImmediate has queued
  editorFile,     \* vscode.window.activeTextEditor's document.fileName
  statusFile,     \* the content of the debuggee's status file
  statChanged,    \* the status file changed since fs.watchFile last polled it
  reads,          \* the calls of fs.readFile in flight
  switches,       \* the openTextDocument / showTextDocument chains in flight
  issued,         \* the ids setBreakPoint has returned, oldest first
  active,         \* start has been called: a session is active
  forwarded,      \* setCurrentLineInSource has been called with the content
                  \* the status file has had since it was last written
  last            \* the last step: the operation, the value it returned, the
                  \* events it passed to sendEvent, those its listeners got,
                  \* the commands it executed, whether it threw

vars == <<sourceFile, sourceLines, currentLine, breakPoints, breakpointId,
          breaksFile, immediate, editorFile, statusFile, statChanged, reads,
          switches, issued, active, forwarded, last>>

\* `this` and the editor, with the scratch fields of the call: ret (the value
\* returned), sent (the events sendEvent was called with), emitted (the events
\* the listeners received), commands (the commands executed), threw
This ==
  [ sourceFile |-> sourceFile, sourceLines |-> sourceLines,
    currentLine |-> currentLine, breakPoints |-> breakPoints,
    breakpointId |-> breakpointId, breaksFile |-> breaksFile,
    immediate |-> immediate, editorFile |-> editorFile, switches |-> switches,
    ret |-> <<>>, sent |-> <<>>, emitted |-> <<>>, commands |-> <<>>,
    threw |-> FALSE ]

\* Map.prototype.has / get / set / delete on the entries
mapHas(m, k) == \E i \in 1..Len(m) : m[i].file = k

mapIndex(m, k) == CHOOSE i \in 1..Len(m) : m[i].file = k

mapGet(m, k) == IF mapHas(m, k) THEN m[mapIndex(m, k)].breakpoints ELSE <<>>

mapSet(m, k, v) ==
  IF mapHas(m, k)
    THEN [m EXCEPT ![mapIndex(m, k)].breakpoints = v]
    ELSE Append(m, [file |-> k, breakpoints |-> v])

mapDelete(m, k) ==
  IF mapHas(m, k)
    THEN SubSeq(m, 1, mapIndex(m, k) - 1) \o SubSeq(m, mapIndex(m, k) + 1, Len(m))
    ELSE m

\* ------------------------------------------------------- private methods
\* readFileSync(file).toString().split('\n'), file by file
SourceLines == [f \in Files |-> split(FileContent(f))]

loadSource(self, file) ==
  IF self.sourceFile # file
    THEN [self EXCEPT !.sourceFile = file,
                      !.sourceLines = SourceLines[file]]
    ELSE self

saveBreakpointsToFile(self, path) ==
  [self EXCEPT !.breaksFile = StringifyBreakPointsInfo(self.breakPoints)]

\* sendEvent calling this.emit at once
sendEvent_Sync(self, event) ==
  [self EXCEPT !.emitted = Append(@, event), !.sent = Append(@, event)]

sendEvent(self, event) ==
  [self EXCEPT !.immediate = Append(@, event), !.sent = Append(@, event)]

\* a string that is neither undefined nor empty
Truthy(str) == str # Undefined /\ str # ""

\* fireEventsForLine stopping as well on a line that has a breakpoint
fireEventsForLine_Breakpoints(self, ln, stepEvent) ==
  IF Truthy(stepEvent) /\ self.currentLine <= ln
    THEN [sendEvent(self, stepEvent) EXCEPT !.ret = <<TRUE>>]
    ELSE IF \E i \in 1..Len(mapGet(self.breakPoints, self.sourceFile)) :
              mapGet(self.breakPoints, self.sourceFile)[i].line = ln
           THEN [sendEvent(self, "stopOnBreakpoint") EXCEPT !.ret = <<TRUE>>]
           ELSE [self EXCEPT !.ret = <<FALSE>>]

\* fireEventsForLine(ln, stepEvent); ret holds the boolean it returns
fireEventsForLine(self, ln, stepEvent) ==
  IF Truthy(stepEvent) /\ self.currentLine <= ln
    THEN [sendEvent(self, stepEvent) EXCEPT !.ret = <<TRUE>>]
    ELSE [self EXCEPT !.ret = <<FALSE>>]

\* the loop of run, from line ln on
RECURSIVE runFrom(_, _, _)
runFrom(self, ln, stepEvent) ==
  IF ln < Len(self.sourceLines)
    THEN LET fired == fireEventsForLine(self, ln, stepEvent) IN
         IF fired.ret = <<TRUE>>
           THEN [fired EXCEPT !.currentLine = ln, !.ret = <<>>]
           ELSE runFrom([fired EXCEPT !.ret = <<>>], ln + 1, stepEvent)
    ELSE sendEvent(self, "end")

\* run starting its loop at the current line
run_FromCurrent(self, stepEvent) == runFrom(self, self.currentLine, stepEvent)

run(self, stepEvent) == runFrom(self, self.currentLine + 1, stepEvent)

\* movesDown looking at the line as it is, not trimmed
movesDown_NoTrim(lines, bp) ==
  /\ ~bp.verified
  /\ bp.line < Len(lines)
  /\ LET srcLine == lines[bp.line + 1] IN
       Len(srcLine) = 0 \/ indexOf(srcLine, "+") = 0

\* does verifyBreakpoints move bp, given the loaded lines
movesDown(lines, bp) ==
  /\ ~bp.verified
  /\ bp.line < Len(lines)
  /\ LET srcLine == trim(lines[bp.line + 1]) IN
       Len(srcLine) = 0 \/ indexOf(srcLine, "+") = 0

\* verifyBreakpoints taking a line past the end of the document for a blank one
verifyBreakpoints_PastEnd(self, path) ==
  IF mapHas(self.breakPoints, path)
    THEN LET loaded == loadSource(self, path)
             bps == mapGet(self.breakPoints, path)
         IN [loaded EXCEPT !.breakPoints =
               mapSet(@, path,
                 [i \in 1..Len(bps) |->
                   IF \/ ~bps[i].verified /\ bps[i].line >= Len(loaded.sourceLines)
                      \/ movesDown(loaded.sourceLines, bps[i])
                     THEN [bps[i] EXCEPT !.line = @ + 1]
                     ELSE bps[i]])]
    ELSE self

verifyBreakpoints(self, path) ==
  IF mapHas(self.breakPoints, path)
    THEN LET loaded == loadSource(self, path)
             bps == mapGet(self.breakPoints, path)
         IN [loaded EXCEPT !.breakPoints =
               mapSet(@, path,
                 [i \in 1..Len(bps) |->
                   IF movesDown(loaded.sourceLines, bps[i])
                     THEN [bps[i] EXCEPT !.line = @ + 1]
                     ELSE bps[i]])]
    ELSE self

\* -------------------------------------------------------- public methods
continue(self) == run(self, Undefined)

step(self, event) == run(self, event)

\* start keeping the current line it finds
start_NoReset(self, featureFilePath, stopOnEntry) ==
  LET loaded == loadSource(self, featureFilePath)
      verified == verifyBreakpoints(loaded, loaded.sourceFile)
  IN IF stopOnEntry THEN step(verified, "stopOnEntry") ELSE continue(verified)

\* start stepping once whatever stopOnEntry is
start_AlwaysStep(self, featureFilePath, stopOnEntry) ==
  LET loaded == [loadSource(self, featureFilePath) EXCEPT !.currentLine = -1]
      verified == verifyBreakpoints(loaded, loaded.sourceFile)
  IN step(verified, "stopOnEntry")

start(self, featureFilePath, stopOnEntry) ==
  LET loaded == [loadSource(self, featureFilePath) EXCEPT !.currentLine = -1]
      verified == verifyBreakpoints(loaded, loaded.sourceFile)
  IN IF stopOnEntry THEN step(verified, "stopOnEntry") ELSE continue(verified)

\* stack reporting the line that runs next, the one it names the frame after
stack_NextLine(self, startFrame, endFrame) ==
  [ frames |-> << [ index |-> 0, name |-> self.currentLine + 1,
                    file |-> self.sourceFile, line |-> self.currentLine + 1 ] >>,
    count |-> 1 ]

stack(self, startFrame, endFrame) ==
  [ frames |-> << [ index |-> 0, name |-> self.currentLine + 1,
                    file |-> self.sourceFile, line |-> self.currentLine ] >>,
    count |-> 1 ]

\* setBreakPoint writing the file before it verifies
setBreakPoint_SaveFirst(self, path, line) ==
  LET id == self.breakpointId + 1
      bp == [verified |-> FALSE, line |-> line, id |-> id]
      pushed == [self EXCEPT !.breakpointId = id,
                             !.breakPoints =
                               mapSet(@, path, Append(mapGet(@, path), bp))]
      saved == saveBreakpointsToFile(pushed, path)
      verified == verifyBreakpoints(saved, path)
      bps == mapGet(verified.breakPoints, path)
  IN [verified EXCEPT !.ret = <<bps[Len(bps)]>>]

\* setBreakPoint numbering a breakpoint by the count of those the file has
setBreakPoint_CountId(self, path, line) ==
  LET id == Len(mapGet(self.breakPoints, path)) + 2
      bp == [verified |-> FALSE, line |-> line, id |-> id]
      pushed == [self EXCEPT !.breakpointId = @ + 1,
                             !.breakPoints =
                               mapSet(@, path, Append(mapGet(@, path), bp))]
      verified == verifyBreakpoints(pushed, path)
      saved == saveBreakpointsToFile(verified, path)
      bps == mapGet(saved.breakPoints, path)
  IN [saved EXCEPT !.ret = <<bps[Len(bps)]>>]

setBreakPoint(self, path, line) ==
  LET id == self.breakpointId + 1
      bp == [verified |-> FALSE, line |-> line, id |-> id]
      pushed == [self EXCEPT !.breakpointId = id,
                             !.breakPoints =
                               mapSet(@, path, Append(mapGet(@, path), bp))]
      verified == verifyBreakpoints(pushed, path)
      saved == saveBreakpointsToFile(verified, path)
      bps == mapGet(saved.breakPoints, path)
  IN [saved EXCEPT !.ret = <<bps[Len(bps)]>>]

\* Array.prototype.findIndex(bp => bp.line === line), zero-based
findIndex(bps, line) ==
  IF \E i \in 1..Len(bps) : bps[i].line = line
    THEN (CHOOSE i \in 1..Len(bps) :
            bps[i].line = line /\ \A j \in 1..(i - 1) : bps[j].line # line) - 1
    ELSE -1

\* clearBreakPoint returning early, without a write, when nothing matches
clearBreakPoint_NoWrite(self, path, line) ==
  LET bps == mapGet(self.breakPoints, path)
      index == findIndex(bps, line)
  IN IF mapHas(self.breakPoints, path) /\ index >= 0
       THEN LET spliced ==
                  [self EXCEPT !.breakPoints =
                     mapSet(@, path, SubSeq(bps, 1, index)
                                       \o SubSeq(bps, index + 2, Len(bps)))]
            IN [saveBreakpointsToFile(spliced, path) EXCEPT !.ret = <<bps[index + 1]>>]
       ELSE self

clearBreakPoint(self, path, line) ==
  LET bps == mapGet(self.breakPoints, path)
      index == findIndex(bps, line)
  IN IF mapHas(self.breakPoints, path) /\ index >= 0
       THEN LET spliced ==
                  [self EXCEPT !.breakPoints =
                     mapSet(@, path, SubSeq(bps, 1, index)
                                       \o SubSeq(bps, index + 2, Len(bps)))]
            IN [saveBreakpointsToFile(spliced, path) EXCEPT !.ret = <<bps[index + 1]>>]
       ELSE saveBreakpointsToFile(self, path)

clearBreakpoints(self, path) ==
  saveBreakpointsToFile([self EXCEPT !.breakPoints = mapDelete(@, path)], path)

\* ------------------------------------------------------------ the watcher
StepOver == "workbench.action.debug.stepOver"

executeCommand(self, command) == [self EXCEPT !.commands = Append(@, command)]

\* setCurrentLineInSource setting the line before it asks for the switch
setCurrentLineInSource_ApplyFirst(self, debugInfo) ==
  IF self.editorFile # Undefined /\ debugInfo.file # self.editorFile
    THEN [self EXCEPT !.currentLine = debugInfo.line - 1,
                      !.switches = Append(@, debugInfo)]
    ELSE executeCommand([self EXCEPT !.currentLine = debugInfo.line - 1], StepOver)

\* setCurrentLineInSource up to the call of openTextDocument
setCurrentLineInSource(self, debugInfo) ==
  IF self.editorFile # Undefined /\ debugInfo.file # self.editorFile
    THEN [self EXCEPT !.switches = Append(@, debugInfo)]
    ELSE executeCommand([self EXCEPT !.currentLine = debugInfo.line - 1], StepOver)

\* the callback of showTextDocument(td).then: the editor shows the document
shownDocument(self, debugInfo) ==
  LET shown == [self EXCEPT !.editorFile = debugInfo.file]
      started == start(shown, debugInfo.file, TRUE)
  IN executeCommand([started EXCEPT !.currentLine = debugInfo.line - 1], StepOver)

\* the callback of fs.readFile in the listener of fs.watchFile
readFileCallback(self, data) ==
  IF data # <<>>
    THEN LET parsed == JSONParse(data) IN
         IF parsed.ok
           THEN setCurrentLineInSource(self,
                  [file |-> StringValue(property(parsed, "file")),
                   line |-> NumberValue(property(parsed, "line"))])
           ELSE [self EXCEPT !.threw = TRUE]
    ELSE self

\* ------------------------------------------------------------ the actions
\* what is observed of a step in which no code of the runtime ran
NoCall == [op |-> "none", ret |-> <<>>, sent |-> <<>>, emitted |-> <<>>,
           commands |-> <<>>, threw |-> FALSE]

\* the runtime's fields after a call that left it as `self`
Becomes(self) ==
  /\ sourceFile' = self.sourceFile
  /\ sourceLines' = self.sourceLines
  /\ currentLine' = self.currentLine
  /\ breakPoints' = self.breakPoints
  /\ breakpointId' = self.breakpointId
  /\ breaksFile' = self.breaksFile
  /\ immediate' = self.immediate
  /\ editorFile' = self.editorFile
  /\ switches' = self.switches

Returned(self, op) ==
  last' = [op |-> op, ret |-> self.ret, sent |-> self.sent, emitted |-> self.emitted,
           commands |-> self.commands, threw |-> self.threw]

EventsLeft == Len(immediate) < MaxQueued

\* _sourceLines is an array: loadSource has run
Loaded == sourceFile # Undefined

Init ==
  /\ sourceFile = Undefined
  /\ sourceLines = <<>>
  /\ currentLine = 0
  /\ breakPoints = <<>>
  /\ breakpointId = 1
  /\ breaksFile = <<>>
  /\ immediate = <<>>
  /\ editorFile = AFeature
  /\ statusFile = <<>>
  /\ statChanged = FALSE
  /\ reads = 0
  /\ switches = <<>>
  /\ issued = <<>>
  /\ active = FALSE
  /\ forwarded = FALSE
  /\ last = NoCall

StartAt(f, stopOnEntry) ==
  /\ EventsLeft
  /\ \E self \in {start(This, f, stopOnEntry)} :
       Becomes(self) /\ Returned(self, "start")
  /\ active' = TRUE
  /\ UNCHANGED <<statusFile, statChanged, reads, issued, forwarded>>

Start == \E f \in Files, stopOnEntry \in BOOLEAN : StartAt(f, stopOnEntry)

Continue ==
  /\ Loaded
  /\ EventsLeft
  /\ \E self \in {continue(This)} :
       Becomes(self) /\ Returned(self, "continue")
  /\ UNCHANGED <<statusFile, statChanged, reads, issued, active, forwarded>>

StepEvents == {"stopOnStep", "stopOnEntry"}

StepWith(event) ==
  /\ Loaded
  /\ EventsLeft
  /\ \E self \in {step(This, event)} :
       Becomes(self) /\ Returned(self, "step")
  /\ UNCHANGED <<statusFile, statChanged, reads, issued, active, forwarded>>

Step == \E event \in StepEvents : StepWith(event)

SetBreakPointAt(path, line) ==
  /\ breakpointId < MaxBreakpointId
  /\ \E self \in {setBreakPoint(This, path, line)} :
       /\ Becomes(self)
       /\ Returned(self, "setBreakPoint")
       /\ issued' = Append(issued, self.ret[1].id)
  /\ UNCHANGED <<statusFile, statChanged, reads, active, forwarded>>

SetBreakPoint == \E path \in Files, line \in 0..MaxLine : SetBreakPointAt(path, line)

ClearBreakPointAt(path, line) ==
  /\ \E self \in {clearBreakPoint(This, path, line)} :
       Becomes(self) /\ Returned(self, "clearBreakPoint")
  /\ UNCHANGED <<statusFile, statChanged, reads, issued, active, forwarded>>

ClearBreakPoint ==
  \E path \in Files, line \in 0..(MaxLine + 1) : ClearBreakPointAt(path, line)

ClearBreakpointsOf(path) ==
  /\ \E self \in {clearBreakpoints(This, path)} :
       Becomes(self) /\ Returned(self, "clearBreakpoints")
  /\ UNCHANGED <<statusFile, statChanged, reads, issued, active, forwarded>>

ClearBreakpoints == \E path \in Files : ClearBreakpointsOf(path)

\* the frame numbers a stack trace request carries
StackFrames == {0, 1, 20}

StackAt(startFrame, endFrame) ==
  /\ last' = [NoCall EXCEPT !.op = "stack",
                            !.ret = <<stack(This, startFrame, endFrame)>>]
  /\ UNCHANGED <<sourceFile, sourceLines, currentLine, breakPoints, breakpointId,
                 breaksFile, immediate, editorFile, statusFile, statChanged, reads,
                 switches, issued, active, forwarded>>

Stack == \E startFrame, endFrame \in StackFrames : StackAt(startFrame, endFrame)

\* the event loop runs the oldest callback setImmediate queued: this.emit(event)
RunImmediate ==
  /\ immediate # <<>>
  /\ immediate' = Tail(immediate)
  /\ last' = [NoCall EXCEPT !.op = "emit", !.emitted = <<Head(immediate)>>]
  /\ UNCHANGED <<sourceFile, sourceLines, currentLine, breakPoints, breakpointId,
                 breaksFile, editorFile, statusFile, statChanged, reads, switches,
                 issued, active, forwarded>>

\* the debuggee rewrites its status file
DebuggeeWrite ==
  \E content \in StatusContents :
    /\ statusFile' = content
    /\ statChanged' = TRUE
    /\ forwarded' = FALSE
    /\ last' = NoCall
    /\ UNCHANGED <<sourceFile, sourceLines, currentLine, breakPoints, breakpointId,
                   breaksFile, immediate, editorFile, reads, switches, issued,
                   active>>

\* the user focuses another editor, or closes the last one
EditorFocus ==
  \E f \in Files \cup {Undefined} :
    /\ f # editorFile
    /\ editorFile' = f
    /\ last' = NoCall
    /\ UNCHANGED <<sourceFile, sourceLines, currentLine, breakPoints, breakpointId,
                   breaksFile, immediate, statusFile, statChanged, reads, switches,
                   issued, active, forwarded>>

\* the listener of fs.watchFile: the poll saw a change, fs.readFile is called
WatchFileListener ==
  /\ statChanged
  /\ reads < MaxReads
  /\ statChanged' = FALSE
  /\ reads' = reads + 1
  /\ last' = NoCall
  /\ UNCHANGED <<sourceFile, sourceLines, currentLine, breakPoints, breakpointId,
                 breaksFile, immediate, editorFile, statusFile, switches, issued,
                 active, forwarded>>

\* the call left a request to the editor: setCurrentLineInSource was called
Forwards(self) == self.commands # <<>> \/ Len(self.switches) > Len(switches)

\* fs.readFile completes with the content the file has now
ReadFileCallback ==
  /\ reads > 0
  /\ reads' = reads - 1
  /\ \E self \in {readFileCallback(This, statusFile)} :
       /\ Len(self.switches) <= MaxSwitches
       /\ Becomes(self)
       /\ Returned(self, "readFile")
       /\ forwarded' = (forwarded \/ Forwards(self))
  /\ UNCHANGED <<statusFile, statChanged, issued, active>>

\* a document switch completes: openTextDocument and showTextDocument resolved
ShownDocument(i) ==
  /\ EventsLeft
  /\ \E self \in {shownDocument(
                      [This EXCEPT !.switches = SubSeq(switches, 1, i - 1)
                                                  \o SubSeq(switches, i + 1, Len(switches))],
                      switches[i])} :
       Becomes(self) /\ Returned(self, "shownDocument")
  /\ active' = TRUE
  /\ UNCHANGED <<statusFile, statChanged, reads, issued, forwarded>>

ShowTextDocumentThen == \E i \in 1..Len(switches) : ShownDocument(i)

Next ==
  \/ Start
  \/ Continue
  \/ Step
  \/ Stack
  \/ SetBreakPoint
  \/ ClearBreakPoint
  \/ ClearBreakpoints
  \/ RunImmediate
  \/ DebuggeeWrite
  \/ EditorFocus
  \/ WatchFileListener
  \/ ReadFileCallback
  \/ ShowTextDocumentThen

Spec == Init /\ [][Next]_vars

\* the front end's requests alone: the debuggee reports nothing
NextApi ==
  \/ Start
  \/ Continue
  \/ Step
  \/ SetBreakPoint
  \/ ClearBreakPoint
  \/ ClearBreakpoints
  \/ RunImmediate

SpecApi == Init /\ [][NextApi]_vars

\* the registry's requests and start, which verifies
NextRegistry ==
  \/ Start
  \/ SetBreakPoint
  \/ ClearBreakPoint
  \/ ClearBreakpoints
  \/ RunImmediate

SpecRegistry == Init /\ [][NextRegistry]_vars

\* execution over breakpoints that are set and never cleared
NextRun ==
  \/ Start
  \/ Continue
  \/ Step
  \/ SetBreakPoint
  \/ RunImmediate

SpecRun == Init /\ [][NextRun]_vars

\* execution and the watcher: no breakpoint is set
NextSession ==
  \/ Start
  \/ Continue
  \/ Step
  \/ RunImmediate
  \/ DebuggeeWrite
  \/ EditorFocus
  \/ WatchFileListener
  \/ ReadFileCallback
  \/ ShowTextDocumentThen

SpecSession == Init /\ [][NextSession]_vars

\* execution, status records and stack trace requests
NextStack ==
  \/ Start
  \/ Continue
  \/ Step
  \/ Stack
  \/ RunImmediate
  \/ DebuggeeWrite
  \/ WatchFileListener
  \/ ReadFileCallback
  \/ ShowTextDocumentThen

SpecStack == Init /\ [][NextStack]_vars

\* ------------------------------------------------- the breakpoint registry
NoPair == [id |-> <<>>, line |-> <<>>]

\* A reader of the breakpoints file: the records it finds, each with its file
\* and the {id, line} pairs of its breakpoints, in the order of the text.
RECURSIVE scanBreaks(_, _, _, _)
scanBreaks(toks, i, found, bp) ==
  IF i > Len(toks) THEN found
  ELSE
    LET tok == toks[i]
        IsKey(k) == tok = Str(k) /\ i + 2 <= Len(toks) /\ toks[i + 1] = Punct(":")
    IN
    IF IsKey("file") /\ IsString(toks[i + 2])
      THEN scanBreaks(toks, i + 3,
                      Append(found, [file |-> StringValue(toks[i + 2]),
                                     pairs |-> <<>>]), NoPair)
    ELSE IF IsKey("line") /\ IsNumber(toks[i + 2])
      THEN scanBreaks(toks, i + 3, found,
                      [bp EXCEPT !.line = <<NumberValue(toks[i + 2])>>])
    ELSE IF IsKey("id") /\ IsNumber(toks[i + 2])
      THEN scanBreaks(toks, i + 3, found,
                      [bp EXCEPT !.id = <<NumberValue(toks[i + 2])>>])
    ELSE IF tok = Punct("}") /\ bp.id # <<>> /\ bp.line # <<>> /\ found # <<>>
      THEN scanBreaks(toks, i + 1,
                      [found EXCEPT ![Len(found)].pairs =
                         Append(@, [id |-> bp.id[1], line |-> bp.line[1]])],
                      NoPair)
    ELSE scanBreaks(toks, i + 1, found, bp)

ReadBreaks(toks) == scanBreaks(toks, 1, <<>>, NoPair)

\* the {id, line} pairs the breakpoints file holds for file f
PairsOnDisk(f) ==
  LET found == ReadBreaks(breaksFile) IN
  IF \E i \in 1..Len(found) : found[i].file = f
    THEN found[CHOOSE i \in 1..Len(found) : found[i].file = f].pairs
    ELSE <<>>

\* the {id, line} pairs the runtime holds for file f
PairsInMemory(f) ==
  LET bps == mapGet(breakPoints, f) IN
  [i \in 1..Len(bps) |-> [id |-> bps[i].id, line |-> bps[i].line]]

\* C1: when setBreakPoint or clearBreakPoint has returned, the breakpoints
\* file holds for every file exactly the {id, line} pairs, in the same
\* order, that the runtime holds for it in memory.
C1_FileMatchesMemory ==
  last.op \in {"setBreakPoint", "clearBreakPoint"} =>
    \A f \in Files : PairsOnDisk(f) = PairsInMemory(f)

\* setBreakPoint returned with two breakpoints in a.feature, the older one
\* on the later line, and the file holds them in that order
C1_Witness ==
  /\ last.op = "setBreakPoint"
  /\ Len(PairsInMemory(AFeature)) = 2
  /\ PairsInMemory(AFeature)[1].line > PairsInMemory(AFeature)[2].line
  /\ PairsOnDisk(AFeature) = PairsInMemory(AFeature)

\* C2: the ids setBreakPoint returns are strictly increasing in the order of
\* the calls, whatever was cleared in between: no id is returned twice.
C2_IdsStrictlyIncrease ==
  \A i, j \in 1..Len(issued) : i < j => issued[i] < issued[j]

\* a second id was returned after every breakpoint had been cleared
C2_Witness ==
  /\ last.op = "setBreakPoint"
  /\ Len(issued) = 2
  /\ \A f \in Files : Len(mapGet(breakPoints, f)) <= 1
  /\ \A f \in Files : \A i \in 1..Len(mapGet(breakPoints, f)) :
        mapGet(breakPoints, f)[i].id = issued[2]

\* the lines of the feature files that are blank or begin with '+' once
\* trimmed, and the files' line counts, read off the files
CannotHost(f, line) ==
  \/ f = AFeature /\ line \in {1, 2}
  \/ f = OtherFeature /\ line = 0

LineCount(f) == IF f = AFeature THEN 5 ELSE 1

\* where one pass of verifyBreakpoints over file f leaves a breakpoint
AfterOnePass(f, bp) ==
  IF ~bp.verified /\ bp.line < LineCount(f) /\ CannotHost(f, bp.line)
    THEN [bp EXCEPT !.line = @ + 1]
    ELSE bp

\* C3: one normalization pass (the one start runs over the started file, the
\* one setBreakPoint runs over its file) moves each unverified breakpoint
\* that is inside the document, on a line blank or beginning with '+' once
\* trimmed, down by exactly one line, and leaves every other breakpoint of
\* that file, and every breakpoint of every other file, as it was.
C3_OnePassMovesByOne ==
  [][ /\ \A f \in Files, stopOnEntry \in BOOLEAN :
          last'.op = "start" /\ StartAt(f, stopOnEntry) =>
            \A g \in Files :
              mapGet(breakPoints', g) =
                [i \in 1..Len(mapGet(breakPoints, g)) |->
                  IF g = f THEN AfterOnePass(f, mapGet(breakPoints, g)[i])
                           ELSE mapGet(breakPoints, g)[i]]
      /\ \A f \in Files, line \in 0..MaxLine :
          last'.op = "setBreakPoint" /\ SetBreakPointAt(f, line) =>
            \A g \in Files :
              mapGet(breakPoints', g) =
                IF g = f
                  THEN [i \in 1..(Len(mapGet(breakPoints, g)) + 1) |->
                         IF i <= Len(mapGet(breakPoints, g))
                           THEN AfterOnePass(f, mapGet(breakPoints, g)[i])
                           ELSE AfterOnePass(f, [verified |-> FALSE, line |-> line,
                                                 id |-> breakpointId + 1])]
                  ELSE mapGet(breakPoints, g)
    ]_vars

\* setBreakPoint returned a breakpoint on line 2 of a.feature: it was asked
\* for on the blank line 1 and moved one line, onto a line that begins with
\* '+', while an older breakpoint has reached line 3
C3_Witness ==
  /\ last.op = "setBreakPoint"
  /\ last.ret # <<>>
  /\ last.ret[1].line = 2
  /\ sourceFile = AFeature
  /\ \E i \in 1..Len(mapGet(breakPoints, AFeature)) :
        mapGet(breakPoints, AFeature)[i].line = 3

\* C4: clearBreakPoint(path, line) when no breakpoint of path has that line,
\* or path has no entry, returns undefined without throwing, leaves every
\* file's breakpoints as they were, and rewrites the breakpoints file.
C4_ClearNotFound ==
  /\ [][ \A path \in Files, line \in 0..(MaxLine + 1) :
          LET NotFound ==
                \A i \in 1..Len(mapGet(breakPoints, path)) :
                  mapGet(breakPoints, path)[i].line # line
              NothingCleared ==
                /\ last'.ret = <<>>
                /\ ~last'.threw
                /\ breakPoints' = breakPoints
          IN NothingCleared
               \/ ~(last'.op = "clearBreakPoint" /\ NotFound
                      /\ ClearBreakPointAt(path, line))
        ]_vars
  /\ [](last.op = "clearBreakPoint" /\ last.ret = <<>> =>
          \A f \in Files : PairsOnDisk(f) = PairsInMemory(f))

\* clearBreakPoint found nothing while a.feature has a breakpoint that start
\* has moved to line 3
C4_Witness ==
  /\ last.op = "clearBreakPoint"
  /\ last.ret = <<>>
  /\ \E i \in 1..Len(mapGet(breakPoints, AFeature)) :
        mapGet(breakPoints, AFeature)[i].line = 3

\* ------------------------------------------------- execution and events
\* the frame stack() reports
StackFrame == stack(This, 0, 1).frames[1]

C9_EventsDeferredInOrder ==
  [][ /\ last'.op # "emit" =>
          /\ last'.emitted = <<>>
          /\ immediate' = immediate \o last'.sent
      /\ last'.op = "emit" =>
          /\ immediate # <<>>
          /\ last'.emitted = <<Head(immediate)>>
          /\ immediate' = Tail(immediate)
    ]_vars

\* stopOnEntry reached the listeners while a later end is still queued
C9_Witness ==
  /\ last.op = "emit"
  /\ last.emitted = <<"stopOnEntry">>
  /\ immediate = <<"end">>

ForwardingRead ==
  /\ last'.op = "readFile"
  /\ last'.commands # <<>> \/ Len(switches') > Len(switches)

\* C11: the content the status file has had since it was last written is
\* passed to setCurrentLineInSource at most once, however many change
\* notifications arrive for it: one position update or switch request for it.
C11_ForwardedOncePerContent ==
  [][ ForwardingRead => ~forwarded ]_vars

\* C12: a read of the status file that finds it empty, or finds content
\* that does not decode, returns without throwing, sends no event and leaves
\* the current line, the active file and the breakpoints as they were.
C12_MalformedIgnored ==
  [][ last'.op = "readFile" /\ (statusFile = <<>> \/ ~JSONParse(statusFile).ok) =>
        /\ ~last'.threw
        /\ last'.sent = <<>>
        /\ currentLine' = currentLine
        /\ sourceFile' = sourceFile
        /\ breakPoints' = breakPoints
    ]_vars

Settled(f) ==
  \A i \in 1..Len(mapGet(breakPoints, f)) :
    AfterOnePass(f, mapGet(breakPoints, f)[i]) = mapGet(breakPoints, f)[i]

\* C14: in a file whose breakpoints have settled, no two breakpoints are on
\* the same line.
C14_NoSharedLine ==
  \A f \in Files :
    Settled(f) =>
      \A i, j \in 1..Len(mapGet(breakPoints, f)) :
        i # j => mapGet(breakPoints, f)[i].line # mapGet(breakPoints, f)[j].line

\* C15: whenever an operation changes the breakpoints held in memory, a line
\* shifted by the pass of start included, the breakpoints file holds, when
\* the operation returns, the breakpoints held in memory.
C15_FileFollowsEveryMutation ==
  [][ breakPoints' # breakPoints =>
        \A f \in Files : PairsOnDisk(f)' = PairsInMemory(f)'
    ]_vars

\* ------------------------------------------------- the execution position
\* C16: in an active session setBreakPoint, clearBreakPoint and
\* clearBreakpoints leave the active file, its loaded lines and the current
\* line as they were; and a step that changes the active file leaves the
\* current line where a reset to -1 puts it: at -1, or at 0 after the step
\* on entry.
C16_BreakpointsLeavePosition ==
  [][ active =>
        /\ last'.op \in {"setBreakPoint", "clearBreakPoint", "clearBreakpoints"} =>
              /\ sourceFile' = sourceFile
              /\ sourceLines' = sourceLines
              /\ currentLine' = currentLine
        /\ sourceFile' # sourceFile => currentLine' \in {-1, 0}
    ]_vars

\* C17: in an active session, when the processing of a status record has
\* completed (in the read itself when no switch is asked for, else when the
\* switch has completed) the active file is the record's file and the
\* current line is the record's line less one.
C17_RecordSetsFileAndLine ==
  [][ active =>
        /\ \A r \in StatusRecords :
              ( /\ ForwardingRead
                /\ switches' = switches
                /\ statusFile = StringifyDebugInfo(r) )
              => /\ sourceFile' = r.file
                 /\ currentLine' = r.line - 1
        /\ last'.op = "shownDocument" =>
              \E i \in 1..Len(switches) :
                /\ switches' = SubSeq(switches, 1, i - 1)
                                  \o SubSeq(switches, i + 1, Len(switches))
                /\ sourceFile' = switches[i].file
                /\ currentLine' = switches[i].line - 1
    ]_vars

\* ------------------------------------------------------------ convergence
\* C18 as stated: a breakpoint's line never decreases, and a breakpoint that
\* was asked for on a line inside the document and has stopped moving rests
\* on a line inside the document that is not blank and does not begin with
\* '+'.
C18_RestsOnHostingLine ==
  [][ \A f \in Files :
        /\ \A i \in 1..Len(mapGet(breakPoints, f)),
              j \in 1..Len(mapGet(breakPoints', f)) :
              mapGet(breakPoints, f)[i].id = mapGet(breakPoints', f)[j].id =>
                mapGet(breakPoints, f)[i].line <= mapGet(breakPoints', f)[j].line
        /\ \A line \in 0..MaxLine :
              ( /\ last'.op = "setBreakPoint"
                /\ line < LineCount(f)
                /\ SetBreakPointAt(f, line)
                /\ AfterOnePass(f, last'.ret[1]) = last'.ret[1] )
              => /\ last'.ret[1].line < LineCount(f)
                 /\ ~CannotHost(f, last'.ret[1].line)
    ]_vars

\* C18: a breakpoint's line never decreases; a step moves it by one line at
\* most, and only off a line inside the document that is blank or begins
\* with '+', so a breakpoint asked for inside a document of N lines never
\* passes line N and, after N passes at most, rests on a line inside the
\* document that can host it or on line N, the first one past the end.
C18_RestsInsideOrJustPast ==
  [][ \A f \in Files :
        /\ \A i \in 1..Len(mapGet(breakPoints, f)),
              j \in 1..Len(mapGet(breakPoints', f)) :
              LET from == mapGet(breakPoints, f)[i].line
                  to == mapGet(breakPoints', f)[j].line
              IN mapGet(breakPoints, f)[i].id = mapGet(breakPoints', f)[j].id =>
                   /\ from <= to
                   /\ to <= from + 1
                   /\ to # from => from < LineCount(f) /\ CannotHost(f, from)
        /\ \A line \in 0..MaxLine :
              ( /\ last'.op = "setBreakPoint"
                /\ line < LineCount(f)
                /\ SetBreakPointAt(f, line) )
              => /\ last'.ret[1].line \in {line, line + 1}
                 /\ last'.ret[1].line # line => CannotHost(f, line)
                 /\ last'.ret[1].line <= LineCount(f)
    ]_vars

\* a pass of start over other.feature, whose one line is blank, left its
\* breakpoint on line 1, past the end, while the breakpoint of a.feature
\* rests on line 3, past the blank line and the line that begins with '+'
C18_Witness ==
  /\ last.op = "start"
  /\ sourceFile = OtherFeature
  /\ \E i \in 1..Len(mapGet(breakPoints, OtherFeature)) :
        mapGet(breakPoints, OtherFeature)[i].line = 1
  /\ \E i \in 1..Len(mapGet(breakPoints, AFeature)) :
        mapGet(breakPoints, AFeature)[i].line = 3

\* C19: once start has been called the current line is at least -1 and at
\* most the index of the last line of the loaded document.
C19_LineInsideDocument ==
  active => -1 <= currentLine /\ currentLine <= Len(sourceLines) - 1

\* nothing of the watcher is pending: no change unseen, no read in flight,
\* no document switch in flight
WatcherIdle == ~statChanged /\ reads = 0 /\ switches = <<>>

\* C20: status records are applied in the order they were reported: when
\* the watcher has finished all its work, and that work was the last thing
\* to run, the current line is the one of the most recent record, the one
\* the status file holds.
C20_LastRecordWins ==
  \A r \in StatusRecords :
    ( /\ WatcherIdle
      /\ last.op \in {"readFile", "shownDocument"}
      /\ statusFile = StringifyDebugInfo(r) )
    => currentLine = r.line - 1

====
